---- MODULE Spec2Model ----
(***************************************************************************)
(* A model of pierobassa/evm-from-scratch (Go).                            *)
(*                                                                         *)
(* Two code units are modelled:                                            *)
(*   - package evm (src/go/evm.go lines 1-290): the interpreter loop Evm   *)
(*     with its own pushX/popX/applyArithmeticOp/signExtend/sdiv;          *)
(*   - package opcodes (src/go/evm.go lines 292-706, src/go/pool):         *)
(*     the exported operations that work on a scratch pool of big.Int.     *)
(*                                                                         *)
(* math/big integers do not fit TLC's 32-bit integers, so a big.Int is     *)
(* modelled the way math/big stores it: a sign and a little-endian,        *)
(* normalised sequence of limbs (here 8-bit limbs).                        *)
(***************************************************************************)
EXTENDS Integers, Sequences, FiniteSets, TLC

\* ------------------------------------------------------------------------
\* math/big: natural numbers as little-endian byte sequences, no high zeros
\* ------------------------------------------------------------------------

Byte == 0..255

Reverse(s) == [i \in 1..Len(s) |-> s[Len(s) + 1 - i]]

\* nat.norm: the high zero limbs dropped
\* the one value of a one-element set
Only(S) == CHOOSE v \in S : TRUE

NormOf(s) ==
    IF Len(s) = 0 THEN s
    ELSE IF s[Len(s)] # 0 THEN s
    ELSE LET nz == {i \in 1..Len(s) : s[i] # 0}
         IN  IF nz = {} THEN <<>>
             ELSE SubSeq(s, 1, CHOOSE i \in nz : \A j \in (i + 1)..Len(s) : s[j] = 0)

\* nat.norm, the operand evaluated once
Norm(s) == Only({NormOf(v) : v \in {s}})

Dig(a, i) == IF i <= Len(a) THEN a[i] ELSE 0

\* nat.cmp on normalised operands: -1, 0 or 1
CmpNats(a, b) ==
    IF Len(a) < Len(b) THEN -1
    ELSE IF Len(a) > Len(b) THEN 1
    ELSE IF \A i \in 1..Len(a) : a[i] = b[i] THEN 0
    ELSE LET top == CHOOSE i \in 1..Len(a) :
                        a[i] # b[i] /\ \A j \in (i + 1)..Len(a) : a[j] = b[j]
         IN  IF a[top] < b[top] THEN -1 ELSE 1

\* nat.cmp, the operands evaluated once
NatCmp(a, b) == Only({CmpNats(v[1], v[2]) : v \in {<<a, b>>}})

\* Carry propagation over the column values cols[lo..hi] with carry c coming
\* in: the limbs and the carry going out. The range is split in halves so
\* that the evaluation depth stays logarithmic in its length.
RECURSIVE Propagate(_, _, _, _)
Propagate(cols, lo, hi, c) ==
    IF lo > hi THEN [digs |-> <<>>, carry |-> c]
    ELSE IF lo = hi
    THEN [digs |-> <<(cols[lo] + c) % 256>>, carry |-> (cols[lo] + c) \div 256]
    ELSE LET mid == (lo + hi) \div 2
             l   == Propagate(cols, lo, mid, c)
             h   == Propagate(cols, mid + 1, hi, l.carry)
         IN  [digs |-> l.digs \o h.digs, carry |-> h.carry]

RECURSIVE NatOfSmall(_)
NatOfSmall(n) == IF n = 0 THEN <<>> ELSE <<n % 256>> \o NatOfSmall(n \div 256)

\* the number whose columns (limb positions, unreduced) are cols
OfColumns(cols) ==
    LET p == Propagate(cols, 1, Len(cols), 0)
    IN  Norm(p.digs \o NatOfSmall(p.carry))

MaxOf(m, n) == IF m >= n THEN m ELSE n

NatAdd(a, b) ==
    OfColumns([i \in 1..MaxOf(Len(a), Len(b)) |-> Dig(a, i) + Dig(b, i)])

\* a - b for a >= b
NatSub(a, b) ==
    Norm(Propagate([i \in 1..Len(a) |-> a[i] - Dig(b, i)], 1, Len(a), 0).digs)

NatMulDigit(a, d) == OfColumns([i \in 1..Len(a) |-> a[i] * d])

\* the sum of f[lo..hi]
RECURSIVE SumRange(_, _, _)
SumRange(f, lo, hi) ==
    IF lo > hi THEN 0
    ELSE IF lo = hi THEN f[lo]
    ELSE LET mid == (lo + hi) \div 2
         IN  SumRange(f, lo, mid) + SumRange(f, mid + 1, hi)

\* schoolbook multiplication: column k holds the sum of a[i]*b[k+1-i]
NatMul(a, b) ==
    IF Len(a) = 0 \/ Len(b) = 0 THEN <<>>
    ELSE OfColumns([k \in 1..(Len(a) + Len(b) - 1) |->
            LET lo == MaxOf(1, k + 1 - Len(b))
                hi == IF k < Len(a) THEN k ELSE Len(a)
            IN  SumRange([i \in lo..hi |-> a[i] * b[k + 1 - i]], lo, hi)])

\* the largest d in lo..hi with b*d <= r (b*lo <= r is given)
RECURSIVE QuoDigit(_, _, _, _)
QuoDigit(b, r, lo, hi) ==
    IF lo = hi THEN lo
    ELSE LET mid == (lo + hi + 1) \div 2
         IN  IF NatCmp(NatMulDigit(b, mid), r) <= 0
             THEN QuoDigit(b, r, mid, hi)
             ELSE QuoDigit(b, r, lo, mid - 1)

\* schoolbook long division of the limbs a[lo..hi], most significant first,
\* with r the remainder so far: the quotient limbs (most significant first)
\* and the remainder. b # 0. Split in halves like Propagate.
RECURSIVE DivRange(_, _, _, _, _)
DivRange(a, b, lo, hi, r) ==
    IF lo > hi THEN [q |-> <<>>, r |-> r]
    ELSE IF lo = hi
    THEN LET r1 == Norm(<<a[lo]>> \o r)
             d  == QuoDigit(b, r1, 0, 255)
         IN  IF NatCmp(r1, b) < 0 THEN [q |-> <<0>>, r |-> r1]
             ELSE [q |-> <<d>>, r |-> NatSub(r1, NatMulDigit(b, d))]
    ELSE LET mid == (lo + hi) \div 2
             h   == DivRange(a, b, mid + 1, hi, r)
             l   == DivRange(a, b, lo, mid, h.r)
         IN  [q |-> h.q \o l.q, r |-> l.r]

\* b = 256^(Len(b)-1)
IsPowerOfBase(b) ==
    /\ Len(b) > 0
    /\ b[Len(b)] = 1
    /\ \A i \in 1..(Len(b) - 1) : b[i] = 0

\* nat.div: quotient and remainder, b # 0. A dividend smaller than the
\* divisor and a divisor that is a power of the limb base need no long
\* division.
NatDivMod(a, b) ==
    IF NatCmp(a, b) < 0 THEN [q |-> <<>>, r |-> a]
    ELSE IF IsPowerOfBase(b)
    THEN [q |-> SubSeq(a, Len(b), Len(a)),
          r |-> Norm(SubSeq(a, 1, Len(b) - 1))]
    ELSE LET qr == DivRange(a, b, 1, Len(a), <<>>)
         IN  [q |-> Norm(Reverse(qr.q)), r |-> qr.r]

RECURSIVE SmallOfNat(_)
SmallOfNat(a) == IF Len(a) = 0 THEN 0 ELSE a[1] + 256 * SmallOfNat(Tail(a))

\* ------------------------------------------------------------------------
\* math/big: Int = sign and magnitude
\* ------------------------------------------------------------------------

MkInt(neg, abs) == [neg |-> neg /\ Len(abs) > 0, abs |-> abs]

\* big.NewInt(n), n a small non-negative number
NewInt(n) == MkInt(FALSE, NatOfSmall(n))

\* (*Int).Sign
Sign(x) == IF Len(x.abs) = 0 THEN 0 ELSE IF x.neg THEN -1 ELSE 1

\* (*Int).Cmp
CmpInts(x, y) ==
    IF x.neg = y.neg
    THEN (IF x.neg THEN NatCmp(y.abs, x.abs) ELSE NatCmp(x.abs, y.abs))
    ELSE IF x.neg THEN -1 ELSE 1

\* Cmp(x, y) with the operands evaluated once, before the method runs
Cmp(x, y) == Only({CmpInts(v[1], v[2]) : v \in {<<x, y>>}})

\* (*Int).Neg
Neg(x) == MkInt(~x.neg, x.abs)

\* (*Int).Add
AddInts(x, y) ==
    IF x.neg = y.neg THEN MkInt(x.neg, NatAdd(x.abs, y.abs))
    ELSE IF NatCmp(x.abs, y.abs) >= 0 THEN MkInt(x.neg, NatSub(x.abs, y.abs))
    ELSE MkInt(~x.neg, NatSub(y.abs, x.abs))

\* IntAdd(x, y) with the operands evaluated once, before the method runs
IntAdd(x, y) == Only({AddInts(v[1], v[2]) : v \in {<<x, y>>}})

\* (*Int).Sub
IntSub(x, y) == IntAdd(x, Neg(y))

\* (*Int).Mul
MulInts(x, y) == MkInt(x.neg # y.neg, NatMul(x.abs, y.abs))

\* IntMul(x, y) with the operands evaluated once, before the method runs
IntMul(x, y) == Only({MulInts(v[1], v[2]) : v \in {<<x, y>>}})

\* (*Int).Div: Euclidean division, y # 0
DivInts(x, y) ==
    LET qr == NatDivMod(x.abs, y.abs)
        q  == MkInt(x.neg # y.neg, qr.q)
    IN  IF x.neg /\ Len(qr.r) > 0
        THEN (IF y.neg THEN IntAdd(q, NewInt(1)) ELSE IntSub(q, NewInt(1)))
        ELSE q

\* IntDiv(x, y) with the operands evaluated once, before the method runs
IntDiv(x, y) == Only({DivInts(v[1], v[2]) : v \in {<<x, y>>}})

\* (*Int).Mod: Euclidean modulus, y # 0; the result is never negative
ModInts(x, y) ==
    LET qr == NatDivMod(x.abs, y.abs)
    IN  IF x.neg /\ Len(qr.r) > 0
        THEN MkInt(FALSE, NatSub(y.abs, qr.r))
        ELSE MkInt(FALSE, qr.r)

\* IntMod(x, y) with the operands evaluated once, before the method runs
IntMod(x, y) == Only({ModInts(v[1], v[2]) : v \in {<<x, y>>}})

\* (*Int).SetBytes: a big-endian byte slice as an unsigned integer
SetBytes(bs) == MkInt(FALSE, Norm(Reverse(bs)))

\* (*Int).Bytes: the minimal big-endian encoding of |x|
Bytes(x) == Reverse(x.abs)

\* (*Int).Bit(i) for x >= 0
Bit(x, i) == (Dig(x.abs, (i \div 8) + 1) \div (2 ^ (i % 8))) % 2

\* ------------------------------------------------------------------------
\* package opcodes: the opcode table (src/go/opcodes/opcodes.go)
\* ------------------------------------------------------------------------

opCodeMap ==
    (0 :> "Stop") @@ (95 :> "Push0") @@ (96 :> "Push1") @@ (97 :> "Push2") @@
    (99 :> "Push4") @@ (101 :> "Push6") @@ (105 :> "Push10") @@
    (106 :> "Push11") @@ (127 :> "Push32") @@ (80 :> "Pop") @@ (1 :> "Add") @@
    (2 :> "Mul") @@ (3 :> "Sub") @@ (4 :> "Div") @@ (5 :> "Sdiv") @@
    (6 :> "Mod") @@ (7 :> "Smod") @@ (8 :> "Addmod") @@ (9 :> "Mulmod") @@
    (10 :> "Exp") @@ (11 :> "Signextend") @@ (16 :> "Lt") @@ (17 :> "Gt") @@
    (18 :> "Slt") @@ (19 :> "Sgt")

PushOpcodeToBytes ==
    ("Push1" :> 1) @@ ("Push2" :> 2) @@ ("Push4" :> 4) @@ ("Push6" :> 6) @@
    ("Push10" :> 10) @@ ("Push11" :> 11) @@ ("Push32" :> 32)

\* NewOpCode with every byte accepted: an unknown byte decodes to OpCode(0)
NewOpCodeAcceptAll(b) ==
    [opcode |-> IF b \in DOMAIN opCodeMap THEN opCodeMap[b] ELSE "Stop",
     err    |-> FALSE]

\* NewOpCode: the OpCode of a byte, or OpCode(0) (= Stop) and an error
NewOpCode(b) ==
    IF b \in DOMAIN opCodeMap
    THEN [opcode |-> opCodeMap[b], err |-> FALSE]
    ELSE [opcode |-> "Stop", err |-> TRUE]

\* ------------------------------------------------------------------------
\* package evm (src/go/evm.go lines 1-290)
\* ------------------------------------------------------------------------

\* modulus = new(big.Int).Exp(big.NewInt(2), big.NewInt(256), nil): limb 33
\* (bit 256) set
modulus == MkInt(FALSE, [i \in 1..33 |-> IF i = 33 THEN 1 ELSE 0])

\* pushX that moves pc past the operand bytes even when they are missing
pushXSkipping(pc, stack, cd, size) ==
    LET end == pc + size
    IN  IF end <= Len(cd)
        THEN [pc |-> end,
              stack |-> Append(stack, SetBytes(SubSeq(cd, pc + 1, end)))]
        ELSE [pc |-> end, stack |-> stack]

\* pushX: [pc, stack] after reading size bytes at pc; nothing when they run
\* past the end of code
pushX(pc, stack, cd, size) ==
    LET end == pc + size
    IN  IF end <= Len(cd)
        THEN [pc |-> end,
              stack |-> Append(stack, SetBytes(SubSeq(cd, pc + 1, end)))]
        ELSE [pc |-> pc, stack |-> stack]

\* popX: the last size elements, removed; pc is incremented on success
popX(pc, stack, size) ==
    IF Len(stack) < size
    THEN [elements |-> <<>>, ok |-> FALSE, pc |-> pc, stack |-> stack]
    ELSE [elements |-> SubSeq(stack, Len(stack) - size + 1, Len(stack)),
          ok |-> TRUE,
          pc |-> pc + 1,
          stack |-> SubSeq(stack, 1, Len(stack) - size)]

\* popLastElement: (nil, false) on an empty stack; val is meaningful only
\* when ok (a nil *big.Int otherwise)
popLastElement(pc, stack) ==
    IF Len(stack) < 1
    THEN [val |-> NewInt(0), ok |-> FALSE, pc |-> pc, stack |-> stack]
    ELSE LET r == popX(pc, stack, 1)
         IN  [val |-> r.elements[1], ok |-> TRUE, pc |-> r.pc, stack |-> r.stack]

mod(a, b) == IF Sign(b) = 0 THEN NewInt(0) ELSE IntMod(a, b)

div(a, b) == IF Sign(b) = 0 THEN NewInt(0) ELSE IntDiv(a, b)

\* one step of square and multiply: half^2 * x^odd, reduced
PowStep(half, x, odd) ==
    IF Sign(half) = 0 THEN half
    ELSE LET sq == IntMod(IntMul(half, half), modulus)
         IN  IF odd THEN IntMod(IntMul(sq, x), modulus) ELSE sq

\* x^y mod 2^256 by square and multiply over the bits of y, reduced after
\* every product (congruent to reducing x^y once)
RECURSIVE PowMod(_, _)
PowMod(x, y) ==
    IF Len(y) = 0 THEN NewInt(1)
    ELSE LET qr == NatDivMod(y, <<2>>)
         IN  PowStep(PowMod(x, qr.q), x, Len(qr.r) > 0)

\* The largest exponent size (in bytes) for which x^y, x > 1, can be held in
\* memory at all: x^y has at least y bits.
MaxExpBytes == 8

\* new(big.Int).Exp(a, b, nil) cannot complete: a > 1 and b >= 2^64
ExpExhausts(a, b) ==
    /\ Len(b.abs) > MaxExpBytes
    /\ NatCmp(a.abs, <<1>>) > 0

\* new(big.Int).Exp(a, b, nil), up to the reduction that follows it
Exp(a, b) ==
    IF Sign(b) <= 0 THEN NewInt(1)
    ELSE IF Len(a.abs) = 0 THEN NewInt(0)
    ELSE IF NatCmp(a.abs, <<1>>) = 0 /\ ~a.neg THEN NewInt(1)
    ELSE PowMod(a, b.abs)

\* result.Mod(result, modulus) with the reduction left out
ReduceNone(result) == result

\* result.Mod(result, modulus)
Reduce(result) == IntMod(result, modulus)

\* applyArithmeticOp: out is "ok" (true), "false", "panic" (nil dereference in
\* mod when ADDMOD/MULMOD finds no third operand) or "exhausted" (Exp)
applyArithmeticOp(opcode, pc, stack) ==
    IF Len(stack) < 2 THEN [out |-> "false", pc |-> pc, stack |-> stack]
    ELSE
    LET pa == popLastElement(pc, stack)
        pb == popLastElement(pa.pc, pa.stack)
        a  == pa.val
        b  == pb.val
        pm == popLastElement(pb.pc, pb.stack)
        ternary == opcode \in {"Addmod", "Mulmod"}
        after == IF ternary THEN pm ELSE pb
        result ==
            CASE opcode = "Add" -> IntAdd(a, b)
              [] opcode = "Sub" -> IntSub(a, b)
              [] opcode = "Mul" -> IntMul(a, b)
              [] opcode = "Div" -> div(a, b)
              [] opcode = "Mod" -> mod(a, b)
              [] opcode = "Addmod" -> mod(IntAdd(a, b), pm.val)
              [] opcode = "Mulmod" -> mod(IntMul(a, b), pm.val)
              [] opcode = "Exp" -> Exp(a, b)
    IN  IF ternary /\ ~pm.ok
        THEN [out |-> "panic", pc |-> after.pc, stack |-> after.stack]
        ELSE IF opcode = "Exp" /\ ExpExhausts(a, b)
        THEN [out |-> "exhausted", pc |-> after.pc, stack |-> after.stack]
        ELSE IF opcode \notin {"Add", "Sub", "Mul", "Div", "Mod", "Addmod",
                               "Mulmod", "Exp"}
        THEN [out |-> "false", pc |-> after.pc, stack |-> after.stack]
        ELSE [out |-> "ok",
              pc |-> after.pc + 1,
              stack |-> Append(after.stack, Reduce(result))]

\* fromLittleEndian: the slice reversed (in place)
fromLittleEndian(bytes) == Reverse(bytes)

\* x.Bytes() with zero bytes appended until 32 long
PadTo32(bytes) ==
    IF Len(bytes) >= 32 THEN bytes
    ELSE bytes \o [i \in 1..(32 - Len(bytes)) |-> 0]

\* signExtend
signExtend(pc, stack) ==
    IF Len(stack) < 2 THEN [out |-> "false", pc |-> pc, stack |-> stack]
    ELSE
    LET pk == popLastElement(pc, stack)
        px == popLastElement(pk.pc, pk.stack)
        k  == pk.val
        x  == px.val
    IN  IF Cmp(k, NewInt(31)) > 0
        THEN [out |-> "ok", pc |-> px.pc + 1, stack |-> Append(px.stack, x)]
        ELSE
        LET bytes     == PadTo32(Bytes(x))
            byteIndex == SmallOfNat(k.abs)
            signByte  == bytes[byteIndex + 1]
            ext == [i \in 1..Len(bytes) |->
                       IF i - 1 < 32 /\ i - 1 > byteIndex
                       THEN (IF signByte > 127 THEN 255 ELSE 0)
                       ELSE bytes[i]]
            result == SetBytes(fromLittleEndian(ext))
        IN  [out |-> "ok", pc |-> px.pc + 1, stack |-> Append(px.stack, result)]

isNegative(x) == Bit(x, 255) = 1

overflowingNeg(x) == IntMod(Neg(x), modulus)

\* sdiv
sdiv(pc, stack) ==
    IF Len(stack) < 2 THEN [out |-> "false", pc |-> pc, stack |-> stack]
    ELSE
    LET pa == popLastElement(pc, stack)
        pb == popLastElement(pa.pc, pa.stack)
        a  == pa.val
        b  == pb.val
    IN  IF Sign(b) = 0
        THEN [out |-> "ok", pc |-> pb.pc + 1,
              stack |-> Append(pb.stack, NewInt(0))]
        ELSE
        LET aIsNegative == isNegative(a)
            bIsNegative == isNegative(b)
            a1 == IF aIsNegative THEN overflowingNeg(a) ELSE a
            b1 == IF bIsNegative THEN overflowingNeg(b) ELSE b
            q  == IntDiv(a1, b1)
            signed == IF aIsNegative # bIsNegative THEN Neg(q) ELSE q
        IN  [out |-> "ok", pc |-> pb.pc + 1,
             stack |-> Append(pb.stack, IntMod(signed, modulus))]

\* ------------------------------------------------------------------------
\* package opcodes: the stack holds *big.Int, modelled as addresses into a
\* heap; address 0 is nil.  Every function returns the pc, stack, heap and
\* pool it leaves, and out: "true", "false", "panic" or "exhausted".
\* ------------------------------------------------------------------------

\* new(big.Int) / big.NewInt holding v
Alloc(hp, v) == [addr |-> Len(hp) + 1, heap |-> Append(hp, v)]

\* FetchBigIntFromPool: Get returns the pooled object c, or a new one when
\* c = 0; the object is set to zero
FetchBigIntFromPool(hp, pl, c) ==
    IF c = 0
    THEN [addr |-> Len(hp) + 1, heap |-> Append(hp, NewInt(0)), pool |-> pl]
    ELSE [addr |-> c, heap |-> [hp EXCEPT ![c] = NewInt(0)], pool |-> pl \ {c}]

\* ReleaseBigIntToPool
ReleaseBigIntToPool(pl, bi) == pl \cup {bi}

\* PushX
PushX(pc, stack, hp, cd, size) ==
    LET end == pc + size
    IN  IF end <= Len(cd)
        THEN LET value == Alloc(hp, SetBytes(SubSeq(cd, pc + 1, end)))
             IN  [pc |-> end, stack |-> Append(stack, value.addr),
                  heap |-> value.heap]
        ELSE [pc |-> pc, stack |-> stack, heap |-> hp]

\* PopX
PopX(pc, stack, size) ==
    IF Len(stack) < size
    THEN [elements |-> <<>>, ok |-> FALSE, pc |-> pc, stack |-> stack]
    ELSE [elements |-> SubSeq(stack, Len(stack) - size + 1, Len(stack)),
          ok |-> TRUE,
          pc |-> pc + 1,
          stack |-> SubSeq(stack, 1, Len(stack) - size)]

\* popLastElement of package opcodes; val = 0 is nil
opcodes_popLastElement(pc, stack) ==
    IF Len(stack) < 1
    THEN [val |-> 0, ok |-> FALSE, pc |-> pc, stack |-> stack]
    ELSE LET p == PopX(pc, stack, 1)
         IN  [val |-> p.elements[1], ok |-> TRUE, pc |-> p.pc, stack |-> p.stack]

\* mod and div of package opcodes (isDiv tells which): [out, addr, heap, pool].
\* The divisor is tested before the fetch and read again by Mod/Div after it.
opcodes_divmod(isDiv, a, b, hp, pl, c) ==
    IF Sign(hp[b]) = 0
    THEN LET z == Alloc(hp, NewInt(0))
         IN  [out |-> "true", addr |-> z.addr, heap |-> z.heap, pool |-> pl]
    ELSE LET f == FetchBigIntFromPool(hp, pl, c)
             result == f.addr
             released == ReleaseBigIntToPool(f.pool, result)
         IN  IF Sign(f.heap[b]) = 0
             THEN [out |-> "panic", addr |-> result, heap |-> f.heap,
                   pool |-> released]
             ELSE [out |-> "true", addr |-> result,
                   heap |-> [f.heap EXCEPT ![result] =
                               IF isDiv THEN IntDiv(f.heap[a], f.heap[b])
                               ELSE IntMod(f.heap[a], f.heap[b])],
                   pool |-> released]

opcodes_mod(a, b, hp, pl, c) == opcodes_divmod(FALSE, a, b, hp, pl, c)

opcodes_div(a, b, hp, pl, c) == opcodes_divmod(TRUE, a, b, hp, pl, c)

\* package utils
Modulus == MkInt(FALSE, [i \in 1..33 |-> IF i = 33 THEN 1 ELSE 0])

FromLittleEndian(bytes) == Reverse(bytes)

IsNegative(x) == Bit(x, 255) = 1

OverflowingNeg(x) == IntMod(Neg(x), Modulus)

\* what a function of package opcodes leaves behind
Left(out, pc, stack, hp, pl) ==
    [out |-> out, pc |-> pc, stack |-> stack, heap |-> hp, pool |-> pl]

\* the end of ApplyArithmeticOp: result.Mod(result, utils.Modulus), the
\* append, pc++, and the deferred releases of rel
Finish(result, pc, stack, hp, pl, rel) ==
    Only({Left("true", pc + 1, Append(stack, result),
               [h EXCEPT ![result] = IntMod(h[result], Modulus)],
               pl \cup rel) : h \in {hp}})

\* ApplyArithmeticOp with the pooled result; c1 and c2 are what the first
\* and the second fetch get from the pool.  Operands are read when the
\* big.Int method runs, after the fetches.
ApplyArithmeticOp(opcode, pc, stack, hp, pl, c1, c2) ==
    IF Len(stack) < 2 THEN Left("false", pc, stack, hp, pl)
    ELSE
    LET pa == opcodes_popLastElement(pc, stack)
        pb == opcodes_popLastElement(pa.pc, pa.stack)
        a  == pa.val
        b  == pb.val
        f1 == FetchBigIntFromPool(hp, pl, c1)
        result == f1.addr
        h1 == f1.heap
        f2 == FetchBigIntFromPool(h1, f1.pool, c2)
        intermediate == f2.addr
        pm == opcodes_popLastElement(pb.pc, pb.stack)
        modValue == pm.val
    IN  CASE opcode \in {"Add", "Sub", "Mul"} ->
               Finish(result, pb.pc, pb.stack,
                      [h1 EXCEPT ![result] =
                         CASE opcode = "Add" -> IntAdd(h1[a], h1[b])
                           [] opcode = "Sub" -> IntSub(h1[a], h1[b])
                           [] opcode = "Mul" -> IntMul(h1[a], h1[b])],
                      f1.pool, {result})
          [] opcode \in {"Div", "Mod"} ->
               Only({IF d.out = "panic"
                     THEN Left("panic", pb.pc, pb.stack, d.heap,
                               d.pool \cup {result})
                     ELSE Finish(d.addr, pb.pc, pb.stack, d.heap, d.pool,
                                 {result})
                       : d \in {opcodes_divmod(opcode = "Div", a, b, h1,
                                               f1.pool, c2)}})
          [] opcode \in {"Addmod", "Mulmod"} ->
               Only({IF modValue = 0 \/ Sign(h2[modValue]) = 0
                     THEN Left("panic", pm.pc, pm.stack, h2,
                               f2.pool \cup {result, intermediate})
                     ELSE Finish(result, pm.pc, pm.stack,
                                 [h2 EXCEPT ![result] =
                                    IntMod(h2[intermediate], h2[modValue])],
                                 f2.pool, {result, intermediate})
                       : h2 \in {[f2.heap EXCEPT ![intermediate] =
                                    IF opcode = "Addmod"
                                    THEN IntAdd(f2.heap[a], f2.heap[b])
                                    ELSE IntMul(f2.heap[a], f2.heap[b])]}})
          [] opcode = "Exp" ->
               IF ExpExhausts(h1[a], h1[b])
               THEN Left("exhausted", pb.pc, pb.stack, h1, f1.pool)
               ELSE Finish(result, pb.pc, pb.stack,
                           [h1 EXCEPT ![result] = Exp(h1[a], h1[b])],
                           f1.pool, {result})
          [] OTHER -> Left("false", pb.pc, pb.stack, h1, f1.pool \cup {result})

ltComparison(a, b) == IF Cmp(a, b) < 0 THEN NewInt(1) ELSE NewInt(0)

gtComparison(a, b) == IF Cmp(a, b) > 0 THEN NewInt(1) ELSE NewInt(0)

sltComparison(a, b) ==
    CASE IsNegative(a) /\ ~IsNegative(b) -> NewInt(1)
      [] ~IsNegative(a) /\ IsNegative(b) -> NewInt(0)
      [] IsNegative(a) /\ IsNegative(b) ->
            IF Cmp(OverflowingNeg(a), OverflowingNeg(b)) <= 0
            THEN NewInt(0) ELSE NewInt(1)
      [] OTHER -> IF Cmp(a, b) < 0 THEN NewInt(1) ELSE NewInt(0)

sgtComparison(a, b) ==
    CASE IsNegative(a) /\ ~IsNegative(b) -> NewInt(0)
      [] ~IsNegative(a) /\ IsNegative(b) -> NewInt(1)
      [] IsNegative(a) /\ IsNegative(b) ->
            IF Cmp(OverflowingNeg(a), OverflowingNeg(b)) >= 0
            THEN NewInt(0) ELSE NewInt(1)
      [] OTHER -> IF Cmp(a, b) > 0 THEN NewInt(1) ELSE NewInt(0)

\* ApplyComparisonOp
ApplyComparisonOp(opcode, pc, stack, hp, pl) ==
    IF Len(stack) < 2 THEN Left("false", pc, stack, hp, pl)
    ELSE
    LET pa == opcodes_popLastElement(pc, stack)
        pb == opcodes_popLastElement(pa.pc, pa.stack)
        a  == hp[pa.val]
        b  == hp[pb.val]
        push(v) == LET result == Alloc(hp, v)
                   IN  Left("true", pb.pc + 1, Append(pb.stack, result.addr),
                            result.heap, pl)
    IN  CASE opcode = "Lt" -> push(ltComparison(a, b))
          [] opcode = "Gt" -> push(gtComparison(a, b))
          [] opcode = "Slt" -> push(sltComparison(a, b))
          [] opcode = "Sgt" -> push(sgtComparison(a, b))
          [] OTHER -> Left("false", pb.pc, pb.stack, hp, pl)

\* applySignedDivision and applySignedModulus (isDiv tells which):
\* [out, addr, heap, pool]; a and b are read after the fetch. m holds a and
\* b after the OverflowingNeg of the negative ones, r the Div or Mod of them.
applySigned(isDiv, a, b, hp, pl, c) ==
    LET f == FetchBigIntFromPool(hp, pl, c)
        result == f.addr
        released == ReleaseBigIntToPool(f.pool, result)
        aIsNegative == IsNegative(f.heap[a])
        bIsNegative == IsNegative(f.heap[b])
        negate == IF isDiv THEN aIsNegative # bIsNegative ELSE aIsNegative
    IN  Only({IF Sign(m[2]) = 0
              THEN [out |-> "panic", addr |-> result, heap |-> f.heap,
                    pool |-> released]
              ELSE [out |-> "true", addr |-> result,
                    heap |-> [f.heap EXCEPT ![result] =
                       IntMod(Only({IF negate THEN Neg(r) ELSE r
                                      : r \in {IF isDiv THEN IntDiv(m[1], m[2])
                                               ELSE IntMod(m[1], m[2])}}),
                              Modulus)],
                    pool |-> released]
                : m \in {<<IF aIsNegative THEN OverflowingNeg(f.heap[a])
                           ELSE f.heap[a],
                           IF bIsNegative THEN OverflowingNeg(f.heap[b])
                           ELSE f.heap[b]>>}})

\* SignedDivision and SignedModulus (isDiv tells which)
SignedOp(isDiv, pc, stack, hp, pl, c) ==
    IF Len(stack) < 2 THEN Left("false", pc, stack, hp, pl)
    ELSE
    LET pa == opcodes_popLastElement(pc, stack)
        pb == opcodes_popLastElement(pa.pc, pa.stack)
        a  == pa.val
        b  == pb.val
    IN  IF Sign(hp[b]) = 0
        THEN LET z == Alloc(hp, NewInt(0))
             IN  Left("true", pb.pc + 1, Append(pb.stack, z.addr), z.heap, pl)
        ELSE Only({IF r.out = "panic"
                   THEN Left("panic", pb.pc, pb.stack, r.heap, r.pool)
                   ELSE Left("true", pb.pc + 1, Append(pb.stack, r.addr),
                             r.heap, r.pool)
                     : r \in {applySigned(isDiv, a, b, hp, pl, c)}})

SignedDivision(pc, stack, hp, pl, c) == SignedOp(TRUE, pc, stack, hp, pl, c)

SignedModulus(pc, stack, hp, pl, c) == SignedOp(FALSE, pc, stack, hp, pl, c)

\* applySignedExtend: [addr, heap, pool]; x is read after the fetch
applySignedExtend(x, k, hp, pl, c) ==
    LET f == FetchBigIntFromPool(hp, pl, c)
        result == f.addr
        bytes == PadTo32(Bytes(f.heap[x]))
        byteIndex == SmallOfNat(f.heap[k].abs)
        signByte == bytes[byteIndex + 1]
        ext == [i \in 1..Len(bytes) |->
                   IF i - 1 < 32 /\ i - 1 > byteIndex
                   THEN (IF signByte > 127 THEN 255 ELSE 0)
                   ELSE bytes[i]]
    IN  [addr |-> result,
         heap |-> [f.heap EXCEPT ![result] = SetBytes(FromLittleEndian(ext))],
         pool |-> ReleaseBigIntToPool(f.pool, result)]

\* SignedExtend
SignedExtend(pc, stack, hp, pl, c) ==
    IF Len(stack) < 2 THEN Left("false", pc, stack, hp, pl)
    ELSE
    LET pk == opcodes_popLastElement(pc, stack)
        px == opcodes_popLastElement(pk.pc, pk.stack)
        k  == pk.val
        x  == px.val
    IN  IF Cmp(hp[k], NewInt(31)) > 0
        THEN Left("true", px.pc + 1, Append(px.stack, x), hp, pl)
        ELSE LET r == applySignedExtend(x, k, hp, pl, c)
             IN  Left("true", px.pc + 1, Append(px.stack, r.addr), r.heap, r.pool)

\* ------------------------------------------------------------------------
\* Inputs: the bytecodes an execution is started on
\* ------------------------------------------------------------------------

\* the number of leading PUSH instructions of a generated bytecode
MaxPush == 3

\* the number of bytes that follow the leading pushes
MaxTail == 2

AllOnes(n) == [i \in 1..n |-> 255]

\* the Words the generated bytecodes push: 0, 31, 0x12F4, 2^256-1
Words ==
    { NewInt(0), NewInt(31), SetBytes(<<18, 244>>), SetBytes(AllOnes(32)) }

\* the bytes the tails of up to MaxTail bytes are made of: STOP, ADD, POP,
\* PUSH1, PUSH2 and an unmapped byte
TailBytes == {0, 1, 80, 96, 97, 255}

\* every mapped byte, for the tails of one byte
OpBytes == DOMAIN opCodeMap

PushSizes == {PushOpcodeToBytes[o] : o \in DOMAIN PushOpcodeToBytes}

\* the byte of an OpCode
ByteOf(o) == CHOOSE b \in DOMAIN opCodeMap : opCodeMap[b] = o

\* PUSHn w for the smallest n that holds w, operand big-endian, left-padded
PushInstr(w) ==
    LET len  == Len(Bytes(w))
        n    == CHOOSE m \in PushSizes :
                    m >= len /\ \A m2 \in PushSizes : m2 >= len => m <= m2
        o    == CHOOSE op \in DOMAIN PushOpcodeToBytes : PushOpcodeToBytes[op] = n
    IN  <<ByteOf(o)>> \o [i \in 1..(n - len) |-> 0] \o Bytes(w)

RECURSIVE PushAll(_)
PushAll(ws) == IF Len(ws) = 0 THEN <<>> ELSE PushInstr(Head(ws)) \o PushAll(Tail(ws))

SeqsUpTo(S, n) == UNION {[1..m -> S] : m \in 0..n}

\* fixed bytecodes: the scenarios of the specification's section 8, every
\* PUSH width, and two opcodes in a row
Scenarios ==
    { <<96, 5, 96, 3, 1, 0>>,
      <<96, 0, 96, 5, 4, 0>>,
      <<80>>,
      <<255>>,
      <<95, 99, 1, 2, 3, 4, 101, 1, 2, 3, 4, 5, 6, 0>>,
      <<105, 1, 2, 3, 4, 5, 6, 7, 8, 9, 10, 106, 1, 2, 3, 4, 5, 6, 7, 8, 9, 10, 11, 3>>,
      <<96, 7, 96, 2, 96, 3, 2, 95, 95, 95, 1>>,
      <<96, 1, 96, 2, 80, 96, 3>>,
      <<96, 9, 95, 7, 96, 4>>,
      <<99, 1, 2>> }

Prefixes == {PushAll(ws) : ws \in SeqsUpTo(Words, MaxPush)}

Tails == SeqsUpTo(TailBytes, MaxTail) \cup {<<b>> : b \in OpBytes}

\* ------------------------------------------------------------------------
\* State
\* ------------------------------------------------------------------------

VARIABLES
    code,      \* Evm: the bytecode (never written)
    pc,        \* Evm: the local pc
    stack,     \* Evm: the local stack, top last (append)
    status,    \* "running", "returned", "panic" or "exhausted"
    retStack,  \* Evm: the returned slice (<<>> for nil)
    success,   \* Evm: the returned flag
    trace,     \* the values of pc at which a byte was decoded, in order
    heap,      \* package opcodes: the big.Int objects, by address
    pool,      \* pool.bigIntPool: the addresses put and not yet got
    xpc,       \* package opcodes: each execution's pc
    xstack,    \* package opcodes: each execution's stack of addresses
    xstatus    \* package opcodes: "running", "panic" or "exhausted"

evmVars == <<code, pc, stack, status, retStack, success, trace>>

opVars == <<heap, pool, xpc, xstack, xstatus>>

vars == <<evmVars, opVars>>

\* the number of executions that share the pool
NumExec == 2

Execs == 1..NumExec

\* package opcodes at rest: nothing allocated, nothing called
OpsIdle ==
    /\ heap = <<>>
    /\ pool = {}
    /\ xpc = [e \in Execs |-> 0]
    /\ xstack = [e \in Execs |-> <<>>]
    /\ xstatus = [e \in Execs |-> "running"]

Init ==
    /\ \/ \E p \in Prefixes, tail \in Tails : code = p \o tail
       \/ code \in Scenarios
    /\ pc = 0
    /\ stack = <<>>
    /\ status = "running"
    /\ retStack = <<>>
    /\ success = FALSE
    /\ trace = <<>>
    /\ OpsIdle

\* ------------------------------------------------------------------------
\* Evm: one action per arm of the loop
\* ------------------------------------------------------------------------

Running == status = "running"

Decoding == Running /\ pc < Len(code)

\* NewOpCode(code[pc])
Decoded == NewOpCode(code[pc + 1])

\* the opcode the loop is about to dispatch
Dispatch(o) == Decoding /\ ~Decoded.err /\ Decoded.opcode = o

Return(s, ok) ==
    /\ status' = "returned"
    /\ retStack' = s
    /\ success' = ok

Continue(newPc, newStack) ==
    /\ pc' = newPc
    /\ stack' = newStack
    /\ UNCHANGED <<status, retStack, success>>

\* an arm whose helper returned out: carry on, return (nil, false), or die
Outcome(r) ==
    /\ pc' = r.pc
    /\ stack' = r.stack
    /\ CASE r.out = "ok" -> UNCHANGED <<status, retStack, success>>
         [] r.out = "false" -> Return(<<>>, FALSE)
         [] OTHER -> status' = r.out /\ UNCHANGED <<retStack, success>>

\* the loop condition fails: reverse the stack and return it
EvmLoopExit ==
    /\ Running
    /\ pc >= Len(code)
    /\ Return(Reverse(stack), TRUE)
    /\ UNCHANGED <<code, pc, stack, trace, opVars>>

\* NewOpCode fails: return nil, false
EvmUnknown ==
    /\ Decoding
    /\ Decoded.err
    /\ Return(<<>>, FALSE)
    /\ trace' = Append(trace, pc)
    /\ UNCHANGED <<code, pc, stack, opVars>>

\* case Stop: return stack, true
EvmStop ==
    /\ Dispatch("Stop")
    /\ pc' = pc + 1
    /\ Return(stack, TRUE)
    /\ trace' = Append(trace, pc)
    /\ UNCHANGED <<code, stack, opVars>>

\* case Push0
EvmPush0 ==
    /\ Dispatch("Push0")
    /\ Continue(pc + 1, Append(stack, NewInt(0)))
    /\ trace' = Append(trace, pc)
    /\ UNCHANGED <<code, opVars>>

\* case Push1 .. Push32
EvmPushX ==
    /\ Decoding
    /\ ~Decoded.err
    /\ Decoded.opcode \in DOMAIN PushOpcodeToBytes
    /\ LET r == pushX(pc + 1, stack, code, PushOpcodeToBytes[Decoded.opcode])
       IN  Continue(r.pc, r.stack)
    /\ trace' = Append(trace, pc)
    /\ UNCHANGED <<code, opVars>>

\* case Pop
EvmPop ==
    /\ Dispatch("Pop")
    /\ LET r == popX(pc + 1, stack, 1)
       IN  Outcome([out |-> IF r.ok THEN "ok" ELSE "false",
                    pc |-> r.pc, stack |-> r.stack])
    /\ trace' = Append(trace, pc)
    /\ UNCHANGED <<code, opVars>>

\* case Add, Sub, Mul, Div, Mod, Addmod, Mulmod, Exp
EvmArithmetic ==
    /\ Decoding
    /\ ~Decoded.err
    /\ Decoded.opcode \in {"Add", "Sub", "Mul", "Div", "Mod", "Addmod",
                           "Mulmod", "Exp"}
    /\ Outcome(applyArithmeticOp(Decoded.opcode, pc + 1, stack))
    /\ trace' = Append(trace, pc)
    /\ UNCHANGED <<code, opVars>>

\* case Signextend
EvmSignextend ==
    /\ Dispatch("Signextend")
    /\ Outcome(signExtend(pc + 1, stack))
    /\ trace' = Append(trace, pc)
    /\ UNCHANGED <<code, opVars>>

\* case Sdiv
EvmSdiv ==
    /\ Dispatch("Sdiv")
    /\ Outcome(sdiv(pc + 1, stack))
    /\ trace' = Append(trace, pc)
    /\ UNCHANGED <<code, opVars>>

\* Smod, Lt, Gt, Slt, Sgt: the switch has no case for them; only pc++ ran
EvmNoCase ==
    /\ Decoding
    /\ ~Decoded.err
    /\ Decoded.opcode \in {"Smod", "Lt", "Gt", "Slt", "Sgt"}
    /\ Continue(pc + 1, stack)
    /\ trace' = Append(trace, pc)
    /\ UNCHANGED <<code, opVars>>

Next ==
    \/ EvmLoopExit
    \/ EvmUnknown
    \/ EvmStop
    \/ EvmPush0
    \/ EvmPushX
    \/ EvmPop
    \/ EvmArithmetic
    \/ EvmSignextend
    \/ EvmSdiv
    \/ EvmNoCase

Spec == Init /\ [][Next]_vars

\* ------------------------------------------------------------------------
\* package opcodes: executions that share the pool, each calling the
\* exported functions on its own pc and stack
\* ------------------------------------------------------------------------

\* the length of the code a caller hands to PushX
MaxXLen == 8

\* the code handed to PushX
XCodes == {[i \in 1..MaxXLen |-> v] : v \in {0, 3, 5}}

\* an execution makes no further call once its pc has reached MaxXPc
MaxXPc == 4

ArithmeticOps == {"Add", "Sub", "Mul", "Div", "Mod", "Addmod", "Mulmod", "Exp"}

ComparisonOps == {"Lt", "Gt", "Slt", "Sgt"}

InitOps ==
    /\ code = <<>>
    /\ pc = 0
    /\ stack = <<>>
    /\ status = "idle"
    /\ retStack = <<>>
    /\ success = FALSE
    /\ trace = <<>>
    /\ OpsIdle

Calling(e) == xstatus[e] = "running" /\ xpc[e] < MaxXPc

\* what a fetch may get: a pooled object, or 0 for a new one
Gets == pool \cup {0}

\* Addresses carry no meaning of their own, and an object that no stack and
\* no pool entry refers to is garbage.  Live(xs, hp, pl) is the same memory
\* with the garbage dropped and the objects renumbered: those on the stacks
\* in the order of the executions, bottom to top, then those only in the
\* pool in the order of their values.
\* the stacks of executions 1..e, one after the other
RECURSIVE Flat(_, _)
Flat(xs, e) == IF e = 0 THEN <<>> ELSE Flat(xs, e - 1) \o xs[e]

Live(xs, hp, pl) ==
    LET all == Flat(xs, NumExec)
        first == {i \in 1..Len(all) : \A j \in 1..(i - 1) : all[j] # all[i]}
        stacked == {all[i] : i \in first}
        pooled == pl \ stacked
        renumbered(a) ==
            IF a \in stacked
            THEN LET i == CHOOSE f \in first : all[f] = a
                 IN  Cardinality({f \in first : f <= i})
            ELSE 1 + Cardinality(first)
                   + Cardinality({b \in pooled :
                                    \/ Cmp(hp[b], hp[a]) < 0
                                    \/ Cmp(hp[b], hp[a]) = 0 /\ b < a})
        at(n) == CHOOSE a \in stacked \cup pooled : renumbered(a) = n
    IN  [stack |-> [e \in Execs |->
                      [i \in 1..Len(xs[e]) |-> renumbered(xs[e][i])]],
         heap |-> [n \in 1..Cardinality(stacked \cup pooled) |-> hp[at(n)]],
         pool |-> {renumbered(a) : a \in pl}]

\* execution e takes over what the call left
Leave(e, r) ==
    \E left \in {r} :
    \E m \in {Live([xstack EXCEPT ![e] = left.stack], left.heap, left.pool)} :
        /\ xpc' = [xpc EXCEPT ![e] = left.pc]
        /\ xstack' = m.stack
        /\ heap' = m.heap
        /\ pool' = m.pool
        /\ xstatus' = [xstatus EXCEPT ![e] =
                         IF left.out \in {"panic", "exhausted"} THEN left.out
                         ELSE "running"]
        /\ UNCHANGED evmVars

CallPushX(e) ==
    /\ Calling(e)
    /\ \E cd \in XCodes :
         LET r == PushX(xpc[e], xstack[e], heap, cd, 1)
         IN  Leave(e, Left("true", r.pc, r.stack, r.heap, pool))

CallPopX(e) ==
    /\ Calling(e)
    /\ LET r == PopX(xpc[e], xstack[e], 1)
       IN  Leave(e, Left("true", r.pc, r.stack, heap, pool))

CallApplyArithmeticOp(e) ==
    /\ Calling(e)
    /\ \E opcode \in ArithmeticOps \cup {"Lt"}, c1 \in Gets :
       \E c2 \in IF opcode \in {"Div", "Mod", "Addmod", "Mulmod"}
                 THEN Gets \ (pool \cap {c1}) ELSE {0} :
         Leave(e, ApplyArithmeticOp(opcode, xpc[e], xstack[e], heap, pool,
                                    c1, c2))

CallApplyComparisonOp(e) ==
    /\ Calling(e)
    /\ \E opcode \in ComparisonOps \cup {"Add"} :
         Leave(e, ApplyComparisonOp(opcode, xpc[e], xstack[e], heap, pool))

CallSignedDivision(e) ==
    /\ Calling(e)
    /\ \E c \in Gets : Leave(e, SignedDivision(xpc[e], xstack[e], heap, pool, c))

CallSignedModulus(e) ==
    /\ Calling(e)
    /\ \E c \in Gets : Leave(e, SignedModulus(xpc[e], xstack[e], heap, pool, c))

CallSignedExtend(e) ==
    /\ Calling(e)
    /\ \E c \in Gets : Leave(e, SignedExtend(xpc[e], xstack[e], heap, pool, c))

NextOps ==
    \E e \in Execs :
        \/ CallPushX(e)
        \/ CallPopX(e)
        \/ CallApplyArithmeticOp(e)
        \/ CallApplyComparisonOp(e)
        \/ CallSignedDivision(e)
        \/ CallSignedModulus(e)
        \/ CallSignedExtend(e)

SpecOps == InitOps /\ [][NextOps]_vars

\* ------------------------------------------------------------------------
\* Properties of Evm
\* ------------------------------------------------------------------------

Returned == status = "returned"

Aborted == Returned /\ ~success /\ retStack = <<>>

\* the byte at Go index i of code
CodeAt(i) == code[i + 1]

IsPushByte(b) == b \in DOMAIN opCodeMap /\ opCodeMap[b] \in DOMAIN PushOpcodeToBytes

PushWidth(b) == PushOpcodeToBytes[opCodeMap[b]]

\* a PUSHn at Go index i with fewer than n bytes after it
TruncatedPushAt(i) ==
    /\ i < Len(code)
    /\ IsPushByte(CodeAt(i))
    /\ i + 1 + PushWidth(CodeAt(i)) > Len(code)

LastDecoded == trace[Len(trace)]

\* C1: a successful execution, ended by STOP or by the end of the bytecode,
\* returns the surviving Words oldest-pushed first and the top last (stack
\* holds them in push order).
C1_ReturnedOldestFirst == (Returned /\ success) => retStack = stack

\* C2: a successfully executed opcode advances PC by exactly 1 (PUSHn with
\* its operand bytes present by 1+n), so that the next byte is decoded next.
C2_PcAdvancesByOne ==
    [][(Decoding /\ ~Decoded.err /\ ~TruncatedPushAt(pc) /\ status' = "running")
         => pc' = pc + (IF IsPushByte(CodeAt(pc)) THEN 1 + PushWidth(CodeAt(pc))
                        ELSE 1)]_vars

\* C3: an execution never panics; an opcode short of operands (ADDMOD or
\* MULMOD on two Words included) ends it with success = false.
C3_NeverPanics == status # "panic"

\* the byte at pc has no OpCode, or it is POP and the stack is empty
FaultAtPc ==
    /\ Decoding
    /\ \/ CodeAt(pc) \notin DOMAIN opCodeMap
       \/ opCodeMap[CodeAt(pc)] = "Pop" /\ Len(stack) = 0

\* C4: an unmapped byte, or POP on an empty stack, ends the execution at
\* that step with success = false and an empty stack, and nothing is decoded
\* once the execution has ended.
C4_FaultAbortsAtOnce ==
    [][/\ FaultAtPc => (Aborted' /\ trace' = Append(trace, pc))
       /\ ~Running => trace' = trace]_vars

\* an unmapped byte ended an execution that had pushed Words and had bytes
\* left to decode
C4_Witness ==
    /\ Aborted
    /\ Len(stack) > 0
    /\ Len(trace) > 0
    /\ CodeAt(LastDecoded) \notin DOMAIN opCodeMap
    /\ LastDecoded + 1 < Len(code)

\* the 32-byte big-endian form of x
BigEndian32(x) == [i \in 1..(32 - Len(Bytes(x))) |-> 0] \o Bytes(x)

\* SIGNEXTEND as stated: the bytes above byte k (byte 0 = least significant)
\* become 0xFF or 0x00 after the high bit of byte k; x itself for k >= 31
SignExtended(k, x) ==
    IF Cmp(k, NewInt(31)) >= 0 THEN x
    ELSE LET kk   == SmallOfNat(k.abs)
             be   == BigEndian32(x)
             fill == IF be[32 - kk] > 127 THEN 255 ELSE 0
         IN  SetBytes([i \in 1..32 |-> IF 32 - i > kk THEN fill ELSE be[i]])

\* C7: SIGNEXTEND(k, x) pushes x sign-extended from byte k, and x unchanged
\* for k >= 31.
C7_SignExtendResult ==
    [][(Dispatch("Signextend") /\ Len(stack) >= 2)
         => stack' = Append(SubSeq(stack, 1, Len(stack) - 2),
                            SignExtended(stack[Len(stack)], stack[Len(stack) - 1]))]_vars

IsWord(w) == ~w.neg /\ Len(w.abs) <= 32

\* C8: every Word on the stack (and every Word returned) is in [0, 2^256).
C8_WordsInRange ==
    /\ \A i \in 1..Len(stack) : IsWord(stack[i])
    /\ \A i \in 1..Len(retStack) : IsWord(retStack[i])

\* MUL of 2^256-1 by itself left 1 on the stack: the product was reduced
C8_Witness ==
    /\ Running
    /\ code = PushAll(<<SetBytes(AllOnes(32)), SetBytes(AllOnes(32))>>) \o <<2>>
    /\ Len(trace) = 3
    /\ stack = <<NewInt(1)>>

\* a < b with both Words read as two's complement
SignedLess(a, b) ==
    IF isNegative(a) # isNegative(b) THEN isNegative(a) ELSE Cmp(a, b) < 0

\* the Word a comparison opcode is to push for a = top, b = next
Compared(o, a, b) ==
    LET holds == CASE o = "Lt" -> Cmp(a, b) < 0
                   [] o = "Gt" -> Cmp(a, b) > 0
                   [] o = "Slt" -> SignedLess(a, b)
                   [] o = "Sgt" -> SignedLess(b, a)
    IN  IF holds THEN NewInt(1) ELSE NewInt(0)

\* C9: SMOD, LT, GT, SLT and SGT replace the two top Words by one result
\* (for the comparisons Word(1) when the relation holds, Word(0) otherwise)
\* and abort with success = false on fewer than two Words.
C9_BinaryOpsConsumeTwo ==
    [][(Decoding /\ ~Decoded.err
        /\ Decoded.opcode \in {"Smod", "Lt", "Gt", "Slt", "Sgt"})
         => IF Len(stack) >= 2
            THEN /\ Len(stack') = Len(stack) - 1
                 /\ SubSeq(stack', 1, Len(stack) - 2) = SubSeq(stack, 1, Len(stack) - 2)
                 /\ Decoded.opcode # "Smod"
                      => stack'[Len(stack')] =
                           Compared(Decoded.opcode, stack[Len(stack)],
                                    stack[Len(stack) - 1])
            ELSE Aborted']_vars

\* C10: a PUSHn with fewer than n bytes after it pushes nothing, raises no
\* fault and advances PC by 1, and the byte after it is the next one decoded.
C10_TruncatedPushIsSkipped ==
    [][/\ (Decoding /\ TruncatedPushAt(pc))
            => (stack' = stack /\ pc' = pc + 1 /\ status' = "running")
       /\ (Len(trace) > 0 /\ TruncatedPushAt(LastDecoded) /\ trace' # trace)
            => trace' = Append(trace, LastDecoded + 1)]_vars

\* a truncated PUSHn was passed over and the byte after it decoded
C10_Witness ==
    /\ Len(trace) >= 2
    /\ TruncatedPushAt(trace[Len(trace) - 1])
    /\ LastDecoded = trace[Len(trace) - 1] + 1
    /\ Len(stack) > 0

\* C11: in every reachable state of an execution PC is an index into the
\* bytecode or its length: 0 <= PC <= len(Bytecode).
C11_PcWithinBytecode == 0 <= pc /\ pc <= Len(code)

\* ------------------------------------------------------------------------
\* Properties of package opcodes and the pool
\* ------------------------------------------------------------------------

\* the Word at position i of execution e's stack
WordAt(e, i) == heap[xstack[e][i]]

\* position i of e's stack is below what this step popped and pushed
Untouched(e, i) ==
    /\ i <= Len(xstack[e])
    /\ i <= Len(xstack'[e])
    /\ xpc'[e] = xpc[e] \/ i < Len(xstack'[e])

\* C5: a Word that an earlier opcode placed on a stack keeps its value
\* through every later call, of the same execution or of another one: no
\* fetch from the pool and no write that follows it reaches an object a
\* stack still refers to.
C5_StackWordsKeepTheirValue ==
    [][\A e \in Execs : \A i \in 1..Len(xstack[e]) :
          Untouched(e, i) => heap'[xstack'[e][i]] = WordAt(e, i)]_vars

\* this step is an ADDMOD or MULMOD of execution e on three Words: only
\* these pop three times
ThreeWordCall(e) ==
    /\ Len(xstack[e]) >= 3
    /\ xpc'[e] >= xpc[e] + 3
    /\ Len(xstack'[e]) <= Len(xstack[e]) - 2

\* C6: a zero modulus is no fault: ADDMOD and MULMOD with N = 0 push Word(0)
\* and the execution goes on.
C6_ZeroModulusIsNoFault ==
    [][\A e \in Execs :
          (ThreeWordCall(e) /\ Sign(WordAt(e, Len(xstack[e]) - 2)) = 0)
            => /\ xstatus'[e] = "running"
               /\ Len(xstack'[e]) = Len(xstack[e]) - 2
               /\ Sign(heap'[xstack'[e][Len(xstack'[e])]]) = 0]_vars

====
